---- MODULE Spec2Model ----
(***************************************************************************)
(* State machine of the QuizApp component (src/src/App.tsx): the question  *)
(* list, the current index, the per-question answer records, the           *)
(* countdown, the two view flags, the interval timer started by the        *)
(* effect (timer: the last run of the effect set an interval and returned  *)
(* its cleanup; intervals: the intervals set and not yet cleared), and the *)
(* file reads in flight.                                                   *)
(*                                                                         *)
(* Spec      the component as rendered: every handler is reached through   *)
(*           the control that carries it, so a disabled or unrendered      *)
(*           control fires nothing.                                        *)
(* SpecCore  Spec plus direct calls of the question view's handlers        *)
(*           (toggleOption, handleSubmit, handleNext, handlePrev), as      *)
(*           operations of the session that do not rely on the view        *)
(*           disabling their controls.                                     *)
(***************************************************************************)
EXTENDS Integers, Sequences, FiniteSets, TLC

VARIABLES questions, currentIndex, answers, timeLeft, showResults,
          showSummary, timer, intervals, pending, lastOp

progVars == <<questions, currentIndex, answers, timeLeft, showResults, showSummary, timer, intervals>>

vars == <<questions, currentIndex, answers, timeLeft, showResults, showSummary, timer, intervals, pending, lastOp>>

(***************************************************************************)
(* Bounds and program constants                                            *)
(***************************************************************************)
\* file reads that may be in flight at once
MaxPending == 2

\* useState(60), setTimeLeft(60)
FullTime == 60

\* the value of 0 / 0 and of Math.round(0 / 0); no percentage equals it
NaN == -1

\* a field that a question object does not carry
Undefined == "undefined"

(***************************************************************************)
(* Question files                                                          *)
(***************************************************************************)
Question(opts, ans, expl) == [options |-> opts, answers |-> ans, explanation |-> expl]

QSingle == Question(<<"A", "B">>, <<"A">>, "e")

QMulti == Question(<<"A", "B">>, <<"B", "A">>, "e")

QNoAnswers == Question(<<"A">>, <<>>, "e")

QForeignAnswer == Question(<<"A">>, <<"C">>, Undefined)

QRepeatedAnswer == Question(<<"A">>, <<"A", "A">>, "e")

\* the files a user may choose, by name
FileNames == {"garbage", "quiz", "empty", "invalid", "repeated"}

\* JSON.parse(result): ok = FALSE when it throws a SyntaxError, else the array in value
JSONparse(f) ==
    CASE f = "garbage"  -> [ok |-> FALSE, value |-> <<>>]
      [] f = "quiz"     -> [ok |-> TRUE, value |-> <<QSingle, QMulti>>]
      [] f = "empty"    -> [ok |-> TRUE, value |-> <<>>]
      [] f = "invalid"  -> [ok |-> TRUE, value |-> <<QNoAnswers, QForeignAnswer>>]
      [] f = "repeated" -> [ok |-> TRUE, value |-> <<QRepeatedAnswer>>]

(***************************************************************************)
(* Helpers over the state                                                  *)
(***************************************************************************)
\* questions.length
Length(qs) == Len(qs)

\* answers = {}
NoAnswers == [i \in {} |-> [answered |-> FALSE, selected |-> {}, isCorrect |-> FALSE]]

\* questions[ci]
QuestionAt(qs, ci) == qs[ci + 1]

\* answers[ci]?.answered
Answered(ans, ci) == ci \in DOMAIN ans /\ ans[ci].answered

\* answers[ci]?.selected || new Set()
Selected(ans, ci) == IF ci \in DOMAIN ans THEN ans[ci].selected ELSE {}

\* { ...prev, [ci]: rec }
Put(ans, ci, rec) == [i \in DOMAIN ans \cup {ci} |-> IF i = ci THEN rec ELSE ans[i]]

\* q.answers.includes(s)
Includes(arr, s) == \E i \in 1..Len(arr) : arr[i] = s

\* the elements of an array
Elements(arr) == {arr[i] : i \in 1..Len(arr)}

\* the effect of lines 26-43 after a render: the previous interval is cleared
\* and a new one is set unless there are no questions or the current one is answered
RunEffect(qs, ci, ans) == Length(qs) # 0 /\ ~Answered(ans, ci)

\* which of the four returns of the component renders
View ==
    IF Length(questions) = 0 THEN "upload"
    ELSE IF showResults THEN "results"
    ELSE IF showSummary THEN "summary"
    ELSE "question"

(***************************************************************************)
(* Initial state: the useState initial values, no interval, no file read   *)
(***************************************************************************)
Init ==
    /\ questions = <<>>
    /\ currentIndex = 0
    /\ answers = NoAnswers
    /\ timeLeft = FullTime
    /\ showResults = FALSE
    /\ showSummary = FALSE
    /\ timer = FALSE
    /\ intervals = 0
    /\ pending = {}
    /\ lastOp = [op |-> "mount", arg |-> ""]

\* variant: the effect returns no cleanup function
CleanupMissing(n, had) == n

\* return () => clearInterval(timer): the cleanup of the previous run of the
\* effect clears the interval that run set, if it set one
Cleanup(n, had) == IF had THEN n - 1 ELSE n

\* the render that follows a handler. When a dependency of the effect
\* (questions, currentIndex, answers) changed, the previous run's cleanup is
\* called and the effect runs on the new state. A new object of equal value
\* re-runs the effect too, with the same outcome as leaving it alone.
Rendered(name, arg) ==
    /\ IF <<questions', currentIndex', answers'>> # <<questions, currentIndex, answers>>
       THEN /\ timer' = RunEffect(questions', currentIndex', answers')
            /\ intervals' = Cleanup(intervals, timer) + (IF timer' THEN 1 ELSE 0)
       ELSE UNCHANGED <<timer, intervals>>
    /\ lastOp' = [op |-> name, arg |-> arg]

(***************************************************************************)
(* Countdown: the interval callback of lines 32-40                         *)
(***************************************************************************)
\* variant: no floor at zero
TickValueUnclamped(prev) == prev - 1

TickValue(prev) == IF prev <= 1 THEN 0 ELSE prev - 1

\* variant: handleTimeUp locks and grades the current question when the countdown runs out
TickAutoLock ==
    LET q == QuestionAt(questions, currentIndex)
        selected == Selected(answers, currentIndex)
    IN  /\ intervals > 0
        /\ timeLeft' = TickValue(timeLeft)
        /\ answers' = IF timeLeft <= 1
                      THEN Put(answers, currentIndex,
                               [answered |-> TRUE,
                                selected |-> selected,
                                isCorrect |-> /\ Cardinality(selected) = Len(q.answers)
                                              /\ \A s \in selected : Includes(q.answers, s)])
                      ELSE answers
        /\ UNCHANGED <<questions, currentIndex, showResults, showSummary, pending>>
        /\ Rendered("tick", "")

Tick ==
    /\ intervals > 0
    /\ timeLeft' = TickValue(timeLeft)
    /\ UNCHANGED <<questions, currentIndex, answers, showResults, showSummary, pending>>
    /\ Rendered("tick", "")

(***************************************************************************)
(* File upload: handleFileUpload starts a read, reader.onload ends it      *)
(***************************************************************************)
handleFileUpload(f) ==
    /\ Cardinality(pending) < MaxPending
    /\ f \notin pending
    /\ pending' = pending \cup {f}
    /\ UNCHANGED <<questions, currentIndex, answers, timeLeft, showResults, showSummary>>

\* variant: the catch block also clears the question list
ReaderOnloadClearing(f) ==
    LET parsed == JSONparse(f)
    IN  /\ questions' = IF parsed.ok THEN parsed.value ELSE <<>>
        /\ currentIndex' = 0
        /\ timeLeft' = FullTime
        /\ answers' = NoAnswers
        /\ showResults' = FALSE
        /\ showSummary' = FALSE

\* variant: a load keeps the answer records of the session it replaces
ReaderOnloadKeepingAnswers(f) ==
    LET parsed == JSONparse(f)
    IN  IF parsed.ok
        THEN /\ questions' = parsed.value
             /\ currentIndex' = 0
             /\ timeLeft' = FullTime
             /\ showResults' = FALSE
             /\ showSummary' = FALSE
             /\ UNCHANGED answers
        ELSE UNCHANGED <<questions, currentIndex, answers, timeLeft, showResults, showSummary>>

ReaderOnload(f) ==
    LET parsed == JSONparse(f)
    IN  IF parsed.ok
        THEN /\ questions' = parsed.value
             /\ currentIndex' = 0
             /\ timeLeft' = FullTime
             /\ answers' = NoAnswers
             /\ showResults' = FALSE
             /\ showSummary' = FALSE
        ELSE UNCHANGED <<questions, currentIndex, answers, timeLeft, showResults, showSummary>>

(***************************************************************************)
(* Handlers of the question, summary and results views                     *)
(***************************************************************************)
\* selected.size === q.answers.length && [...selected].every(s => q.answers.includes(s))
IsCorrect(selected, q) ==
    /\ Cardinality(selected) = Len(q.answers)
    /\ \A s \in selected : Includes(q.answers, s)

\* variant: the option is added, never deleted
NewSelectedAddOnly(old, option) == old \cup {option}

\* newSelected of lines 77-82: a copy of the selection with the option's membership flipped
NewSelected(old, option) == IF option \in old THEN old \ {option} ELSE old \cup {option}

\* variant: no early return on an answered question
toggleOptionUnguarded(option) ==
    LET old == Selected(answers, currentIndex)
        newSelected == NewSelected(old, option)
    IN  /\ answers' = Put(answers, currentIndex,
                          [answered |-> Answered(answers, currentIndex),
                           selected |-> newSelected,
                           isCorrect |-> currentIndex \in DOMAIN answers
                                         /\ answers[currentIndex].isCorrect])
        /\ UNCHANGED <<questions, currentIndex, timeLeft, showResults, showSummary>>

\* variant: the record is graded on every toggle
toggleOptionGrading(option) ==
    IF Answered(answers, currentIndex)
    THEN UNCHANGED <<questions, currentIndex, answers, timeLeft, showResults, showSummary>>
    ELSE LET newSelected == NewSelected(Selected(answers, currentIndex), option)
         IN  /\ answers' = Put(answers, currentIndex,
                               [answered |-> FALSE,
                                selected |-> newSelected,
                                isCorrect |-> IsCorrect(newSelected,
                                                        QuestionAt(questions, currentIndex))])
             /\ UNCHANGED <<questions, currentIndex, timeLeft, showResults, showSummary>>

toggleOption(option) ==
    IF Answered(answers, currentIndex)
    THEN UNCHANGED <<questions, currentIndex, answers, timeLeft, showResults, showSummary>>
    ELSE LET old == Selected(answers, currentIndex)
             newSelected == NewSelected(old, option)
         IN  /\ answers' = Put(answers, currentIndex,
                               [answered |-> Answered(answers, currentIndex),
                                selected |-> newSelected,
                                isCorrect |-> currentIndex \in DOMAIN answers
                                              /\ answers[currentIndex].isCorrect])
             /\ UNCHANGED <<questions, currentIndex, timeLeft, showResults, showSummary>>

\* variant: answering the last question opens the results
handleSubmitAutoFinish ==
    LET q == QuestionAt(questions, currentIndex)
        selected == Selected(answers, currentIndex)
    IN  /\ answers' = Put(answers, currentIndex,
                          [answered |-> TRUE,
                           selected |-> selected,
                           isCorrect |-> IsCorrect(selected, q)])
        /\ showResults' = (showResults \/ currentIndex = Length(questions) - 1)
        /\ UNCHANGED <<questions, currentIndex, timeLeft, showSummary>>

handleSubmit ==
    LET q == QuestionAt(questions, currentIndex)
        selected == Selected(answers, currentIndex)
    IN  /\ answers' = Put(answers, currentIndex,
                          [answered |-> TRUE,
                           selected |-> selected,
                           isCorrect |-> IsCorrect(selected, q)])
        /\ UNCHANGED <<questions, currentIndex, timeLeft, showResults, showSummary>>

\* variant: no test against the last index
handleNextUnguarded ==
    /\ currentIndex' = currentIndex + 1
    /\ timeLeft' = FullTime
    /\ UNCHANGED <<questions, answers, showResults, showSummary>>

handleNext ==
    IF currentIndex < Length(questions) - 1
    THEN /\ currentIndex' = currentIndex + 1
         /\ timeLeft' = FullTime
         /\ UNCHANGED <<questions, answers, showResults, showSummary>>
    ELSE UNCHANGED <<questions, currentIndex, answers, timeLeft, showResults, showSummary>>

\* variant: moving back leaves the countdown where it was
handlePrevKeepingTime ==
    IF currentIndex > 0
    THEN /\ currentIndex' = currentIndex - 1
         /\ UNCHANGED <<questions, answers, timeLeft, showResults, showSummary>>
    ELSE UNCHANGED <<questions, currentIndex, answers, timeLeft, showResults, showSummary>>

handlePrev ==
    IF currentIndex > 0
    THEN /\ currentIndex' = currentIndex - 1
         /\ timeLeft' = FullTime
         /\ UNCHANGED <<questions, answers, showResults, showSummary>>
    ELSE UNCHANGED <<questions, currentIndex, answers, timeLeft, showResults, showSummary>>

\* variant: jumping to a question also clears the answer records, as handleReset does
handleNavigateToQuestionClearing(index) ==
    /\ currentIndex' = index
    /\ answers' = NoAnswers
    /\ timeLeft' = FullTime
    /\ showSummary' = FALSE
    /\ UNCHANGED <<questions, showResults>>

handleNavigateToQuestion(index) ==
    /\ currentIndex' = index
    /\ timeLeft' = FullTime
    /\ showSummary' = FALSE
    /\ UNCHANGED <<questions, answers, showResults>>

handleFinish ==
    /\ showResults' = TRUE
    /\ UNCHANGED <<questions, currentIndex, answers, timeLeft, showSummary>>

\* variant: a reset keeps the answer records
handleResetKeepingAnswers ==
    /\ currentIndex' = 0
    /\ timeLeft' = FullTime
    /\ showResults' = FALSE
    /\ showSummary' = FALSE
    /\ UNCHANGED <<questions, answers>>

handleReset ==
    /\ currentIndex' = 0
    /\ answers' = NoAnswers
    /\ timeLeft' = FullTime
    /\ showResults' = FALSE
    /\ showSummary' = FALSE
    /\ UNCHANGED questions

\* onClick={() => setShowSummary(value)}
setShowSummary(value) ==
    /\ showSummary' = value
    /\ UNCHANGED <<questions, currentIndex, answers, timeLeft, showResults>>

(***************************************************************************)
(* Derived views: the statistics of the results and summary returns        *)
(***************************************************************************)
\* Object.values(answers).reduce(...): correct counts isCorrect, total counts every record
Stats(ans) ==
    [correct |-> Cardinality({i \in DOMAIN ans : ans[i].isCorrect}),
     total   |-> Cardinality(DOMAIN ans)]

\* Math.round((n / d) * 100) for n >= 0, d > 0: halves round up
RoundPercent(n, d) == (200 * n + d) \div (2 * d)

\* line 170
ResultsPercentage(ans) ==
    LET stats == Stats(ans)
    IN  IF stats.total > 0 THEN RoundPercent(stats.correct, stats.total) ELSE 0

\* line 203: no test of stats.total; 0 / 0 is NaN
SummaryPercentage(ans) ==
    LET stats == Stats(ans)
    IN  IF stats.total = 0 THEN NaN ELSE RoundPercent(stats.correct, stats.total)

(***************************************************************************)
(* Events of the rendered component                                        *)
(***************************************************************************)
\* the file input of the upload view (lines 153-158)
ChooseFile(f) ==
    /\ View = "upload"
    /\ handleFileUpload(f)
    /\ Rendered("handleFileUpload", f)

\* a read completes; reads complete in any order
FileLoaded(f) ==
    /\ f \in pending
    /\ pending' = pending \ {f}
    /\ ReaderOnload(f)
    /\ Rendered("onload", f)

\* an option button (lines 308-311), disabled once answered
ClickOption(option) ==
    /\ View = "question"
    /\ Includes(QuestionAt(questions, currentIndex).options, option)
    /\ ~Answered(answers, currentIndex)
    /\ toggleOption(option)
    /\ UNCHANGED pending
    /\ Rendered("toggleOption", option)

\* the Submit button (lines 349-356): rendered while unanswered, disabled on an empty selection
ClickSubmit ==
    /\ View = "question"
    /\ ~Answered(answers, currentIndex)
    /\ Cardinality(Selected(answers, currentIndex)) # 0
    /\ handleSubmit
    /\ UNCHANGED pending
    /\ Rendered("handleSubmit", "")

\* the Next button (lines 357-364): rendered once answered, disabled on the last question
ClickNext ==
    /\ View = "question"
    /\ Answered(answers, currentIndex)
    /\ currentIndex # Length(questions) - 1
    /\ handleNext
    /\ UNCHANGED pending
    /\ Rendered("handleNext", "")

\* the Back button (lines 341-347), disabled on the first question
ClickPrev ==
    /\ View = "question"
    /\ currentIndex # 0
    /\ handlePrev
    /\ UNCHANGED pending
    /\ Rendered("handlePrev", "")

\* the Summary button (lines 367-372)
ClickSummary ==
    /\ View = "question"
    /\ setShowSummary(TRUE)
    /\ UNCHANGED pending
    /\ Rendered("openSummary", "")

\* a button of the summary grid (lines 206-214)
ClickGrid(idx) ==
    /\ View = "summary"
    /\ idx \in 0..(Length(questions) - 1)
    /\ handleNavigateToQuestion(idx)
    /\ UNCHANGED pending
    /\ Rendered("handleNavigateToQuestion", "")

\* the Continue button (lines 232-237)
ClickContinue ==
    /\ View = "summary"
    /\ setShowSummary(FALSE)
    /\ UNCHANGED pending
    /\ Rendered("closeSummary", "")

\* the Finish button (lines 238-243)
ClickFinish ==
    /\ View = "summary"
    /\ handleFinish
    /\ UNCHANGED pending
    /\ Rendered("handleFinish", "")

\* the Try Again button (lines 180-186)
ClickTryAgain ==
    /\ View = "results"
    /\ handleReset
    /\ UNCHANGED pending
    /\ Rendered("handleReset", "")

(***************************************************************************)
(* Direct calls of the question view's handlers                            *)
(***************************************************************************)
CallToggle(option) ==
    /\ View = "question"
    /\ Includes(QuestionAt(questions, currentIndex).options, option)
    /\ Answered(answers, currentIndex)
    /\ toggleOption(option)
    /\ UNCHANGED pending
    /\ Rendered("toggleOption", option)

CallSubmit ==
    /\ View = "question"
    /\ \/ Answered(answers, currentIndex)
       \/ Cardinality(Selected(answers, currentIndex)) = 0
    /\ handleSubmit
    /\ UNCHANGED pending
    /\ Rendered("handleSubmit", "")

CallNext ==
    /\ View = "question"
    /\ \/ ~Answered(answers, currentIndex)
       \/ currentIndex = Length(questions) - 1
    /\ handleNext
    /\ UNCHANGED pending
    /\ Rendered("handleNext", "")

CallPrev ==
    /\ View = "question"
    /\ currentIndex = 0
    /\ handlePrev
    /\ UNCHANGED pending
    /\ Rendered("handlePrev", "")

(***************************************************************************)
(* Specifications                                                          *)
(***************************************************************************)
Next ==
    \/ \E f \in FileNames : ChooseFile(f)
    \/ \E f \in FileNames : FileLoaded(f)
    \/ Tick
    \/ \E option \in {"A", "B"} : ClickOption(option)
    \/ ClickSubmit
    \/ ClickNext
    \/ ClickPrev
    \/ ClickSummary
    \/ \E idx \in 0..1 : ClickGrid(idx)
    \/ ClickContinue
    \/ ClickFinish
    \/ ClickTryAgain

NextCore ==
    \/ Next
    \/ \E option \in {"A", "B"} : CallToggle(option)
    \/ CallSubmit
    \/ CallNext
    \/ CallPrev

Spec == Init /\ [][Next]_vars

SpecCore == Init /\ [][NextCore]_vars

(***************************************************************************)
(* Properties                                                              *)
(***************************************************************************)
\* the step just taken ran the handler `name`
Ran(name) == lastOp'.op = name

\* the correct-answer set of a question
CorrectAnswers(q) == Elements(q.answers)

\* C1: a submit step records isCorrect = TRUE exactly when the selected set
\* equals the question's correct-answer set.
C1_GradingIsSetEquality ==
    [][Ran("handleSubmit") =>
         (answers'[currentIndex].isCorrect
            <=> Selected(answers, currentIndex)
                  = CorrectAnswers(QuestionAt(questions, currentIndex)))]_vars

\* C2: a submit step on an empty selection or on an answered question changes
\* nothing, and a submit step that makes a question answered had a non-empty
\* selection.
C2_SubmitGuarded ==
    [][Ran("handleSubmit") =>
         /\ (Selected(answers, currentIndex) = {} \/ Answered(answers, currentIndex))
              => UNCHANGED progVars
         /\ (~Answered(answers, currentIndex) /\ Answered(answers', currentIndex'))
              => Selected(answers, currentIndex) # {}]_vars

\* C3: a toggleOption step on an answered current question changes nothing of
\* the session.
C3_ToggleAnsweredNoOp ==
    [][(Ran("toggleOption") /\ Answered(answers, currentIndex))
         => UNCHANGED progVars]_vars

\* toggleOption was called on an answered question
C3_Witness ==
    /\ lastOp.op = "toggleOption"
    /\ Answered(answers, currentIndex)

\* C4: every step other than a reset or a file load keeps each answered
\* record exactly as it is.
C4_AnsweredRecordFrozen ==
    [][~(Ran("handleReset") \/ Ran("onload")) =>
         \A i \in DOMAIN answers :
            answers[i].answered => (i \in DOMAIN answers' /\ answers'[i] = answers[i])]_vars

\* back on an answered, correctly graded question after moving away from it
C4_Witness ==
    /\ lastOp.op \in {"handlePrev", "handleNavigateToQuestion"}
    /\ currentIndex = 0
    /\ Answered(answers, 0)
    /\ answers[0].isCorrect
    /\ Answered(answers, 1)

\* C5: a completed read whose text JSON.parse rejects changes nothing of the
\* session.
C5_ParseFailureKeepsSession ==
    [][(Ran("onload") /\ ~JSONparse(lastOp'.arg).ok) => UNCHANGED progVars]_vars

\* an unparseable file was read while a session with an answered question was open
C5_Witness ==
    /\ lastOp = [op |-> "onload", arg |-> "garbage"]
    /\ Length(questions) # 0
    /\ \E i \in DOMAIN answers : answers[i].answered

\* C6: every question of the session has a non-empty correct-answer list
\* whose entries are all options of the question.
C6_QuestionsWellFormed ==
    \A i \in 1..Len(questions) :
        /\ questions[i].answers # <<>>
        /\ Elements(questions[i].answers) \subseteq Elements(questions[i].options)

\* C7: while a question is shown (questions loaded, neither summary nor
\* results), currentIndex is an index of the question list.
C7_CurrentIndexValid ==
    View = "question" => currentIndex \in 0..(Length(questions) - 1)

\* handleNext was called on the last question and the index stayed
C7_Witness ==
    /\ lastOp.op = "handleNext"
    /\ View = "question"
    /\ currentIndex = 0

\* C8: a tick lowers timeLeft only while a question is shown and that
\* question is unanswered.
C8_TickOnlyInProgress ==
    [][(Ran("tick") /\ timeLeft' < timeLeft) =>
         (View = "question" /\ ~Answered(answers, currentIndex))]_vars

\* the number of records with answered = TRUE
AnsweredCount(ans) == Cardinality({i \in DOMAIN ans : ans[i].answered})

\* C9: in the results view the percentage is round(100 * correct / answered),
\* counting only the answered records.
C9_PercentageOverAnswered ==
    View = "results" =>
        ResultsPercentage(answers)
          = IF AnsweredCount(answers) > 0
            THEN RoundPercent(Stats(answers).correct, AnsweredCount(answers))
            ELSE 0

\* C10: with no question answered, the results view and the summary view both
\* show 0 percent.
C10_ZeroWhenNothingAnswered ==
    AnsweredCount(answers) = 0 =>
        /\ View = "results" => ResultsPercentage(answers) = 0
        /\ View = "summary" => SummaryPercentage(answers) = 0

\* C11: a completed read of a parseable file installs its question list with
\* currentIndex 0, no answer record, the full countdown and both view flags
\* cleared, so a non-empty list is shown at its first question.
C11_LoadStartsFreshSession ==
    [][(Ran("onload") /\ JSONparse(lastOp'.arg).ok) =>
         /\ questions' = JSONparse(lastOp'.arg).value
         /\ currentIndex' = 0
         /\ answers' = NoAnswers
         /\ timeLeft' = FullTime
         /\ ~showResults'
         /\ ~showSummary'
         /\ (questions' # <<>> => View' = "question")]_vars

\* the two-question file was read and its first question is shown
C11_Witness ==
    /\ lastOp = [op |-> "onload", arg |-> "quiz"]
    /\ questions = <<QSingle, QMulti>>
    /\ View = "question"

\* C12: a reset step yields currentIndex 0, no answer record, the full
\* countdown and the question view, and keeps the question list.
C12_ResetRestoresStart ==
    [][Ran("handleReset") =>
         /\ currentIndex' = 0
         /\ answers' = NoAnswers
         /\ timeLeft' = FullTime
         /\ View' = "question"
         /\ questions' = questions]_vars

\* a reset of a two-question session has just run
C12_Witness ==
    /\ lastOp.op = "handleReset"
    /\ Length(questions) = 2
    /\ answers = NoAnswers

\* C13: every step that changes currentIndex sets the countdown to the full
\* duration.
C13_IndexChangeResetsTime ==
    [][currentIndex' # currentIndex => timeLeft' = FullTime]_vars

\* a move to the second question has just happened
C13_Witness ==
    /\ lastOp.op \in {"handleNext", "handleNavigateToQuestion"}
    /\ currentIndex = 1
    /\ timeLeft = FullTime

\* C14: a submit step that makes the current question answered leaves no
\* interval running and the countdown at the full duration.
C14_SubmitCancelsAndResetsTimer ==
    [][(Ran("handleSubmit") /\ ~Answered(answers, currentIndex)
                            /\ Answered(answers', currentIndex')) =>
         (intervals' = 0 /\ timeLeft' = FullTime)]_vars

\* C15: a tick changes nothing but timeLeft, and a tick at zero leaves zero.
C15_TickOnlyCountsDown ==
    [][Ran("tick") =>
         /\ UNCHANGED <<questions, currentIndex, answers, showResults, showSummary,
                        timer, intervals, pending>>
         /\ (timeLeft = 0 => timeLeft' = 0)]_vars

\* the countdown has run out
C15_Witness ==
    /\ lastOp.op = "tick"
    /\ timeLeft = 0

\* C16: a toggleOption step on an unanswered question flips the membership
\* of its option and of no other, and a second call with the same option
\* gives back the selection held before the first.
C16_ToggleFlipsAndUndoes ==
    [][(Ran("toggleOption") /\ ~Answered(answers, currentIndex)) =>
         LET option == lastOp'.arg
             before == Selected(answers, currentIndex)
             after  == Selected(answers', currentIndex')
         IN  /\ currentIndex' = currentIndex
             /\ ~Answered(answers', currentIndex')
             /\ (option \in after) <=> (option \notin before)
             /\ after \ {option} = before \ {option}
             /\ NewSelected(after, option) = before]_vars

\* an option was switched on and off again: the record holds an empty selection
C16_Witness ==
    /\ lastOp.op = "toggleOption"
    /\ currentIndex \in DOMAIN answers
    /\ ~answers[currentIndex].answered
    /\ answers[currentIndex].selected = {}

\* C17: at most one interval is set and not cleared, and it is the one whose
\* cleanup the effect holds.
C17_AtMostOneTimer ==
    /\ intervals <= 1
    /\ intervals = 1 => timer

\* the effect ran again after a change of the answer records while the countdown was under way
C17_Witness ==
    /\ lastOp.op = "toggleOption"
    /\ timeLeft < FullTime
    /\ intervals = 1

\* C18: only a finish step opens the results view, and only a reset or a
\* file load leaves it.
C18_ResultsOnlyByFinishAndTerminal ==
    [][/\ (View # "results" /\ View' = "results") => Ran("handleFinish")
       /\ (View = "results" /\ ~Ran("handleReset") /\ ~Ran("onload"))
            => View' = "results"]_vars

\* finish has opened the results view with every question answered
C18_Witness ==
    /\ View = "results"
    /\ \A i \in 0..(Length(questions) - 1) : Answered(answers, i)
    /\ lastOp.op = "handleFinish"

\* C19: every record with isCorrect = TRUE has answered = TRUE.
C19_CorrectImpliesAnswered ==
    \A i \in DOMAIN answers : answers[i].isCorrect => answers[i].answered

\* one question is answered correctly while another holds the right selection, not submitted
C19_Witness ==
    \E i, j \in DOMAIN answers :
        /\ answers[i].answered
        /\ answers[i].isCorrect
        /\ ~answers[j].answered
        /\ answers[j].selected = CorrectAnswers(QuestionAt(questions, j))

\* C20: timeLeft is an integer from 0 to the full duration.
C20_TimeLeftInRange ==
    timeLeft \in 0..FullTime

\* the countdown of a shown, unanswered question stands at zero
C20_Witness ==
    /\ timeLeft = 0
    /\ intervals = 1
    /\ View = "question"

====
